---- MODULE Spec2Model ----
(***************************************************************************)
(* A model of the weather summary program of src/src/main.rs: the entry    *)
(* point main, the API client OpenWeather::get with its two callers, the   *)
(* aggregator Stats::from, the classifier TempDifference::from and the     *)
(* report formatter.                                                       *)
(*                                                                         *)
(* f64 values are modelled as exact rationals n/d extended with the three  *)
(* IEEE special values +infinity, -infinity and not-a-number; rounding of  *)
(* finite results is not modelled.                                         *)
(***************************************************************************)
EXTENDS Integers, Sequences, FiniteSets

VARIABLES
    pc,          \* position in main, or "call"/"return" around a pure function
    config,      \* main: the OpenWeather record read from the config file
    requests,    \* the endpoints requested so far, in order
    onecall,     \* main: the decoded OneCall response
    historical,  \* main: the Vec<HistoricalHourly> of historical_day, as [hourly |-> it]
    yesterday,   \* main: Stats of yesterday
    today,       \* main: Stats of today
    diff,        \* main: the TempDifference
    stdout,      \* what was written to standard output, in order
    error,       \* the error main returned
    from,        \* TempDifference::from: first argument
    to,          \* TempDifference::from: second argument
    label,       \* TempDifference::from: the value returned
    itr,         \* Stats::from: the readings given
    ret,         \* Stats::from: the value returned
    endpoint,    \* OpenWeather::get: the endpoint requested
    reply,       \* OpenWeather::get: what the network gave back
    result       \* OpenWeather::get: the Result returned

vars == <<pc, config, requests, onecall, historical, yesterday, today, diff,
          stdout, error, from, to, label, itr, ret, endpoint, reply, result>>

mainVars == <<config, requests, onecall, historical, yesterday, today, diff,
              stdout, error>>
tempVars == <<from, to, label>>
statsVars == <<itr, ret>>
getVars == <<endpoint, reply, result>>

None == [k |-> "none"]

----------------------------------------------------------------------------
(* Bounds *)

\* TempDifference::from is tried on the multiples of 1/2 in -MaxHalf/2 .. MaxHalf/2
MaxHalf == 24
\* Stats::from is tried on every sequence of at most MaxLen readings of Readings
MaxLen == 3
\* the responses of main carry at most MaxHours hourly entries
MaxHours == 26

----------------------------------------------------------------------------
(* f64 *)

Abs(n) == IF n < 0 THEN -n ELSE n

RECURSIVE GCD(_, _)
GCD(a, b) == IF b = 0 THEN a ELSE GCD(b, a % b)

\* the finite value n/d (d > 0), in lowest terms
Norm(n, d) ==
    LET g == GCD(Abs(n), d)
    IN  [k |-> "fin", n |-> n \div g, d |-> d \div g]

F(n) == [k |-> "fin", n |-> n, d |-> 1]
INFINITY == [k |-> "inf", n |-> 1, d |-> 0]
NEG_INFINITY == [k |-> "ninf", n |-> -1, d |-> 0]
NAN == [k |-> "nan", n |-> 0, d |-> 0]

IsNaN(a) == a.k = "nan"
IsFinite(a) == a.k = "fin"

\* a < b; false when either is not-a-number
FLt(a, b) ==
    CASE IsNaN(a) \/ IsNaN(b) -> FALSE
      [] a.k = "inf" -> FALSE
      [] b.k = "ninf" -> FALSE
      [] a.k = "ninf" -> TRUE
      [] b.k = "inf" -> TRUE
      [] OTHER -> a.n * b.d < b.n * a.d

FGt(a, b) == FLt(b, a)

\* a <= b; false when either is not-a-number
FLe(a, b) == ~IsNaN(a) /\ ~IsNaN(b) /\ ~FLt(b, a)

FNeg(a) ==
    CASE a.k = "inf" -> NEG_INFINITY
      [] a.k = "ninf" -> INFINITY
      [] a.k = "nan" -> NAN
      [] OTHER -> [a EXCEPT !.n = -a.n]

FAdd(a, b) ==
    CASE IsNaN(a) \/ IsNaN(b) -> NAN
      [] a.k = "inf" -> IF b.k = "ninf" THEN NAN ELSE INFINITY
      [] a.k = "ninf" -> IF b.k = "inf" THEN NAN ELSE NEG_INFINITY
      [] b.k \in {"inf", "ninf"} -> b
      [] OTHER -> Norm(a.n * b.d + b.n * a.d, a.d * b.d)

FSub(a, b) == FAdd(a, FNeg(b))

\* a / (count as f64), count a usize
FDiv(a, count) ==
    CASE IsNaN(a) -> NAN
      [] count = 0 ->
            IF FLt(F(0), a) THEN INFINITY
            ELSE IF FLt(a, F(0)) THEN NEG_INFINITY
            ELSE NAN
      [] ~IsFinite(a) -> a
      [] OTHER -> Norm(a.n, a.d * count)

----------------------------------------------------------------------------
(* TempDifference *)

TempDifference == {"MuchColder", "Colder", "Same", "Warmer", "MuchWarmer"}

TempDifferenceFromLeNeg10(f, t) ==
    LET delta == FSub(t, f)
    IN  IF FGt(delta, F(10)) THEN "MuchWarmer"
        ELSE IF FGt(delta, F(5)) THEN "Warmer"
        ELSE IF FLe(delta, F(-10)) THEN "MuchColder"
        ELSE IF FLt(delta, F(-5)) THEN "Colder"
        ELSE "Same"

TempDifferenceFromGe5(f, t) ==
    LET delta == FSub(t, f)
    IN  IF FGt(delta, F(10)) THEN "MuchWarmer"
        ELSE IF FLe(F(5), delta) THEN "Warmer"
        ELSE IF FLt(delta, F(-10)) THEN "MuchColder"
        ELSE IF FLt(delta, F(-5)) THEN "Colder"
        ELSE "Same"

\* TempDifference::from(from, to): the first arm of the match whose guard holds
TempDifferenceFrom(f, t) ==
    LET delta == FSub(t, f)
    IN  IF FGt(delta, F(10)) THEN "MuchWarmer"
        ELSE IF FGt(delta, F(5)) THEN "Warmer"
        ELSE IF FLt(delta, F(-10)) THEN "MuchColder"
        ELSE IF FLt(delta, F(-5)) THEN "Colder"
        ELSE "Same"

\* impl fmt::Display for TempDifference
Display(d) ==
    CASE d = "MuchColder" -> "much colder"
      [] d = "Colder" -> "colder"
      [] d = "Same" -> "about the same"
      [] d = "Warmer" -> "warmer"
      [] d = "MuchWarmer" -> "much warmer"

----------------------------------------------------------------------------
(* Stats *)

\* impl Default for Stats
StatsDefault == [min |-> INFINITY, max |-> NEG_INFINITY, avg |-> F(0), count |-> 0]

\* one iteration of the for loop of Stats::from, on the reading i
StatsStep(acc, i) ==
    LET r == acc.ret
        r1 == IF FLt(i, r.min) THEN [r EXCEPT !.min = i]
              ELSE IF FGt(i, r.max) THEN [r EXCEPT !.max = i]
              ELSE r
    IN  [ret |-> [r1 EXCEPT !.count = r.count + 1], sum |-> FAdd(acc.sum, i)]

\* the for loop of Stats::from: the iterator has yielded ret.count readings,
\* so the next one is s[ret.count + 1]
RECURSIVE StatsLoop(_, _)
StatsLoop(acc, s) ==
    IF acc.ret.count >= Len(s) THEN acc
    ELSE StatsLoop(StatsStep(acc, s[acc.ret.count + 1]), s)

StatsFromEmptyAvgZero(s) ==
    LET acc == StatsLoop([ret |-> StatsDefault, sum |-> F(0)], s)
    IN  [acc.ret EXCEPT !.avg = IF acc.ret.count = 0 THEN F(0)
                                 ELSE FDiv(acc.sum, acc.ret.count)]

\* Stats::from(itr)
StatsFrom(s) ==
    LET acc == StatsLoop([ret |-> StatsDefault, sum |-> F(0)], s)
    IN  [acc.ret EXCEPT !.avg = FDiv(acc.sum, acc.ret.count)]

----------------------------------------------------------------------------
(* TempDifference::from on its own *)

Halves == {Norm(n, 2) : n \in -MaxHalf..MaxHalf} \cup {INFINITY, NEG_INFINITY, NAN}

IdleMain ==
    /\ config = None /\ requests = <<>> /\ onecall = None /\ historical = None
    /\ yesterday = None /\ today = None /\ diff = "none" /\ stdout = <<>>
    /\ error = None
IdleTemp == from = None /\ to = None /\ label = "none"
IdleStats == itr = <<>> /\ ret = None
IdleGet == endpoint = "none" /\ reply = None /\ result = None

\* the pairs of test_tempdiff
TestPairs ==
    {<<F(50), F(69)>>, <<F(13), F(19)>>, <<F(50), F(51)>>, <<F(50), F(49)>>,
     <<F(19), F(13)>>, <<F(19), F(5)>>}

InitTempDiff ==
    /\ pc = "call"
    /\ \E p \in (Halves \X Halves) \cup TestPairs : from = p[1] /\ to = p[2]
    /\ label = "none"
    /\ IdleMain /\ IdleStats /\ IdleGet

Classify ==
    /\ pc = "call"
    /\ label' = TempDifferenceFrom(from, to)
    /\ pc' = "return"
    /\ UNCHANGED <<from, to>>
    /\ UNCHANGED mainVars /\ UNCHANGED statsVars /\ UNCHANGED getVars

NextTempDiff == Classify

SpecTempDiff == InitTempDiff /\ [][NextTempDiff]_vars

delta == FSub(to, from)

\* C1: the label returned for (from, to) is decided by delta = to - from alone:
\* MuchWarmer exactly when delta > 10, Warmer exactly when 5 < delta <= 10,
\* MuchColder exactly when delta < -10, Colder exactly when -10 <= delta < -5,
\* Same in every other case (so 10 is Warmer, -10 is Colder, 5 and -5 are
\* Same); the label is one of the five, and the six pairs of the test suite
\* get the labels the test suite expects.
C1_OrderedChain ==
    pc = "return" =>
        /\ label \in TempDifference
        /\ (label = "MuchWarmer") <=> FGt(delta, F(10))
        /\ (label = "Warmer") <=> (FGt(delta, F(5)) /\ FLe(delta, F(10)))
        /\ (label = "MuchColder") <=> FLt(delta, F(-10))
        /\ (label = "Colder") <=> (FLe(F(-10), delta) /\ FLt(delta, F(-5)))
        /\ (label = "Same") <=>
               (IsNaN(delta) \/ (FLe(F(-5), delta) /\ FLe(delta, F(5))))
        /\ (from = F(50) /\ to = F(69)) => label = "MuchWarmer"
        /\ (from = F(13) /\ to = F(19)) => label = "Warmer"
        /\ (from = F(50) /\ to = F(51)) => label = "Same"
        /\ (from = F(50) /\ to = F(49)) => label = "Same"
        /\ (from = F(19) /\ to = F(13)) => label = "Colder"
        /\ (from = F(19) /\ to = F(5)) => label = "MuchColder"

\* a delta of exactly -10 has been classified, as Colder
C1_Witness == pc = "return" /\ delta = F(-10) /\ label = "Colder"

\* C2 as stated: a delta of exactly 10 is Same and a delta of exactly 5 is Same
C2_Original ==
    pc = "return" =>
        /\ delta = F(10) => label = "Same"
        /\ delta = F(5) => label = "Same"

\* C2 as amended: a delta of exactly 10 is Warmer (not MuchWarmer) and a delta
\* of exactly 5 is Same (not Warmer)
C2_Boundaries ==
    pc = "return" =>
        /\ delta = F(10) => label = "Warmer"
        /\ delta = F(5) => label = "Same"

\* classify(0.0, 10.0) has returned, with Warmer
C2_Witness ==
    /\ pc = "return"
    /\ from = F(0)
    /\ to = F(10)
    /\ label = "Warmer"

----------------------------------------------------------------------------
(* Stats::from on its own *)

Readings == {F(-5), F(0), F(60), F(80)}

SeqsUpTo(S, n) == UNION {[1..m -> S] : m \in 0..n}

InitStats ==
    /\ pc = "call"
    /\ itr \in SeqsUpTo(Readings, MaxLen)
    /\ ret = None
    /\ IdleMain /\ IdleTemp /\ IdleGet

Aggregate ==
    /\ pc = "call"
    /\ ret' = StatsFrom(itr)
    /\ pc' = "return"
    /\ UNCHANGED itr
    /\ UNCHANGED mainVars /\ UNCHANGED tempVars /\ UNCHANGED getVars

NextStats == Aggregate

SpecStats == InitStats /\ [][NextStats]_vars

\* C3: for a non-empty sequence of readings the Stats returned has
\* min <= avg <= max
C3_MinAvgMax ==
    (pc = "return" /\ Len(itr) > 0) =>
        FLe(ret.min, ret.avg) /\ FLe(ret.avg, ret.max)

\* C4: for the one-element sequence <<x>> the Stats returned is
\* min = x, max = x, avg = x, count = 1
C4_Singleton ==
    (pc = "return" /\ Len(itr) = 1) =>
        ret = [min |-> itr[1], max |-> itr[1], avg |-> itr[1], count |-> 1]

----------------------------------------------------------------------------
(* OpenWeather::get *)

Min(a, b) == IF a < b THEN a ELSE b

\* an hourly entry, of which main reads feels_like alone
Hourly(x) == [feels_like |-> F(x)]

\* n hourly entries whose feels_like starts at base and moves by step an hour
Ramp(n, base, step) == [i \in 1..n |-> Hourly(base + step * (i - 1))]

Bases == {50, 60, 80}
Steps == {-1, 0, 1}
HourlySeqs == {Ramp(n, b, st) : n \in 0..MaxHours, b \in Bases, st \in Steps}
SmallHourly == {<<>>, <<Hourly(60)>>}

Fields == {"hourly", "daily", "cod", "message"}

\* A response body: whether its bytes are UTF-8, whether they are a JSON
\* object, the fields the object has, and the values of those main or the
\* error shape read.
Body(utf8, object, fields, hourly, cod, message) ==
    [utf8 |-> utf8, object |-> object, fields |-> fields, hourly |-> hourly,
     cod |-> cod, message |-> message]

SuccessBodies ==
    {Body(TRUE, TRUE, {"hourly", "daily"}, h, 0, "") : h \in HourlySeqs}

OtherBodies ==
    {Body(u, FALSE, {}, <<>>, 0, "") : u \in BOOLEAN}
    \cup
    {Body(TRUE, TRUE, fs,
          IF "hourly" \in fs THEN h ELSE <<>>,
          IF "cod" \in fs THEN c ELSE 0,
          IF "message" \in fs THEN m ELSE "") :
        fs \in SUBSET Fields, h \in SmallHourly, c \in {401, 404, 65536},
        m \in {"Invalid API key", "city not found"}}

Bodies == SuccessBodies \cup OtherBodies

\* what the network gives back: .send()? fails, .bytes()? fails, or a body
Replies ==
    {[k |-> "send_failed", bytes |-> None], [k |-> "bytes_failed", bytes |-> None]}
    \cup {[k |-> "body", bytes |-> b] : b \in Bodies}

Ok(v) == [ok |-> TRUE, value |-> v, err |-> None]
Err(e) == [ok |-> FALSE, value |-> None, err |-> e]

\* serde_json::Error
JsonError(why) == [k |-> "serde_json", why |-> why]

\* serde_json on a struct with the required fields `required`, in order
FromJson(b, required, value) ==
    LET missing == {i \in 1..Len(required) : required[i] \notin b.fields}
    IN  IF ~b.object THEN Err(JsonError("expected a JSON object"))
        ELSE IF missing # {}
        THEN Err(JsonError(<<"missing field",
                             required[CHOOSE i \in missing :
                                         \A j \in missing : i <= j]>>))
        ELSE Ok(value)

\* #[derive(Deserialize)] struct OneCall { hourly, daily }
ParseOneCall(b) == FromJson(b, <<"hourly", "daily">>, [hourly |-> b.hourly])

\* #[derive(Deserialize)] struct Historical { hourly }
ParseHistorical(b) == FromJson(b, <<"hourly">>, [hourly |-> b.hourly])

\* #[derive(Deserialize)] struct ClientError { cod: u16, message: String }
ParseClientError(b) ==
    LET r == FromJson(b, <<"cod", "message">>,
                      [code |-> b.cod, message |-> b.message])
    IN  IF r.ok /\ b.cod \notin 0..65535
        THEN Err(JsonError("invalid value, expected u16"))
        ELSE r

Parse(shape, b) ==
    IF shape = "OneCall" THEN ParseOneCall(b) ELSE ParseHistorical(b)

\* String::from_utf8_lossy(bytes).to_string()
FromUtf8Lossy(b) == [of |-> b, replaced |-> ~b.utf8]

\* enum WeatherError
WeatherErrorRequest(why) == [k |-> "Request", why |-> why]
WeatherErrorDeserialize(err, text) == [k |-> "Deserialize", err |-> err, text |-> text]
WeatherErrorClient(c) == [k |-> "Client", code |-> c.code, message |-> c.message]

\* impl TryFrom<&[u8]> for WeatherError
TryFromBytes(b) ==
    LET r == ParseClientError(b)
    IN  IF r.ok THEN Ok(WeatherErrorClient(r.value)) ELSE r

GetSecondError(shape, r) ==
    IF r.k # "body" THEN Err(WeatherErrorRequest(r.k))
    ELSE LET first == Parse(shape, r.bytes)
             second == TryFromBytes(r.bytes)
         IN  IF first.ok THEN first
             ELSE IF second.ok THEN Err(second.value)
             ELSE Err(WeatherErrorDeserialize(second.err, FromUtf8Lossy(r.bytes)))

\* OpenWeather::get::<Response>, given what the network gave back
Get(shape, r) ==
    IF r.k # "body" THEN Err(WeatherErrorRequest(r.k))
    ELSE LET first == Parse(shape, r.bytes)
             second == TryFromBytes(r.bytes)
         IN  IF first.ok THEN first
             ELSE IF second.ok THEN Err(second.value)
             ELSE Err(WeatherErrorDeserialize(first.err, FromUtf8Lossy(r.bytes)))

\* OpenWeather::onecall
OnecallResult(r) == Get("OneCall", r)

\* OpenWeather::historical_day
HistoricalDayResult(r) ==
    LET res == Get("Historical", r)
    IN  IF res.ok THEN Ok([hourly |-> res.value.hourly]) ELSE res

Endpoints == <<"onecall", "onecall/timemachine">>

InitGet ==
    /\ pc = "call"
    /\ endpoint \in {Endpoints[1], Endpoints[2]}
    /\ reply \in Replies
    /\ result = None
    /\ IdleMain /\ IdleTemp /\ IdleStats

GetCall ==
    /\ pc = "call"
    /\ result' = Get(IF endpoint = Endpoints[1] THEN "OneCall" ELSE "Historical",
                     reply)
    /\ pc' = "return"
    /\ UNCHANGED <<endpoint, reply>>
    /\ UNCHANGED mainVars /\ UNCHANGED tempVars /\ UNCHANGED statsVars

NextGet == GetCall

SpecGet == InitGet /\ [][NextGet]_vars

Required(shape) == IF shape = "OneCall" THEN {"hourly", "daily"} ELSE {"hourly"}

\* C5: when a body was received, get returns the success value if the body has
\* the success shape; otherwise, if the body has the error shape {cod, message},
\* the Client error carrying that code and message (never a Deserialize
\* error); otherwise the Deserialize error carrying the failure of the first
\* parse and the text of the body. The three cases exclude one another.
C5_TwoStageDecode ==
    (pc = "return" /\ reply.k = "body") =>
        LET b == reply.bytes
            shape == IF endpoint = Endpoints[1] THEN "OneCall" ELSE "Historical"
            success == b.object /\ Required(shape) \subseteq b.fields
            errorShape == /\ b.object
                          /\ {"cod", "message"} \subseteq b.fields
                          /\ b.cod \in 0..65535
        IN  /\ success => result.ok /\ result.value = [hourly |-> b.hourly]
            /\ (~success /\ errorShape) =>
                  /\ ~result.ok
                  /\ result.err =
                        [k |-> "Client", code |-> b.cod, message |-> b.message]
            /\ (~success /\ ~errorShape) =>
                  /\ ~result.ok
                  /\ result.err.k = "Deserialize"
                  /\ result.err.err = Parse(shape, b).err
                  /\ b.object => result.err.err # TryFromBytes(b).err
                  /\ result.err.text = [of |-> b, replaced |-> ~b.utf8]

\* {"cod": 401, "message": "Invalid API key"} has been decoded as a Client error
C5_Witness ==
    /\ pc = "return"
    /\ reply.k = "body"
    /\ reply.bytes.fields = {"cod", "message"}
    /\ reply.bytes.cod = 401
    /\ reply.bytes.message = "Invalid API key"
    /\ result.err = [k |-> "Client", code |-> 401, message |-> "Invalid API key"]

----------------------------------------------------------------------------
(* main *)

TakeLimit == 24

\* .take(n)
Take(s, n) == SubSeq(s, 1, Min(n, Len(s)))

\* .iter().map(|h| h.feels_like)
FeelsLike(hourly) == [i \in 1..Len(hourly) |-> hourly[i].feels_like]

TodayReadingsNoTake(oc) == FeelsLike(oc.hourly)

\* onecall.hourly.iter().map(|h| h.feels_like).take(24)
TodayReadings(oc) == Take(FeelsLike(oc.hourly), TakeLimit)

\* {:.2} of an f64: the value in hundredths, rounded half to even
Fmt2(a) ==
    IF ~IsFinite(a) THEN [k |-> a.k, hundredths |-> 0]
    ELSE LET q == (100 * a.n) \div a.d
             r == (100 * a.n) % a.d
         IN  [k |-> "fin",
              hundredths |-> IF 2 * r < a.d THEN q
                             ELSE IF 2 * r > a.d THEN q + 1
                             ELSE IF q % 2 = 0 THEN q ELSE q + 1]

\* than = match diff { Same => "as", _ => "than" }
Than(d) == IF d = "Same" THEN "as" ELSE "than"

EndStrict(avg) == IF FLt(F(60), avg) /\ FLt(avg, F(80)) THEN " :)" ELSE "."

\* end = if 60.0 <= today.avg && today.avg <= 80.0 { " :)" } else { "." }
End(avg) == IF FLe(F(60), avg) /\ FLe(avg, F(80)) THEN " :)" ELSE "."

\* eyre's wrap_err
WrapErr(context, source) == [context |-> context, source |-> source]

ConfigFiles ==
    {[valid |-> FALSE, api_key |-> "", lat |-> F(0), lon |-> F(0)],
     [valid |-> TRUE, api_key |-> "key", lat |-> F(45), lon |-> F(-93)]}

Init ==
    /\ pc = "open_config"
    /\ IdleMain /\ IdleTemp /\ IdleStats /\ IdleGet

\* File::open(&opt.config).wrap_err_with(..)?
OpenConfig ==
    /\ pc = "open_config"
    /\ \E opened \in BOOLEAN :
          IF opened
          THEN pc' = "parse_config" /\ error' = error
          ELSE /\ pc' = "exit_err"
               /\ error' = WrapErr("Failed to open config file", [k |-> "io"])
    /\ UNCHANGED <<config, requests, onecall, historical, yesterday, today,
                   diff, stdout>>
    /\ UNCHANGED tempVars /\ UNCHANGED statsVars /\ UNCHANGED getVars

\* serde_json::from_reader(&config_json).wrap_err(..)?
ParseConfig ==
    /\ pc = "parse_config"
    /\ \E f \in ConfigFiles :
          IF f.valid
          THEN /\ config' = [api_key |-> f.api_key, lat |-> f.lat, lon |-> f.lon]
               /\ pc' = "onecall"
               /\ error' = error
          ELSE /\ config' = config
               /\ pc' = "exit_err"
               /\ error' = WrapErr("Failed to deserialize configuration JSON",
                                   JsonError("config"))
    /\ UNCHANGED <<requests, onecall, historical, yesterday, today, diff, stdout>>
    /\ UNCHANGED tempVars /\ UNCHANGED statsVars /\ UNCHANGED getVars

OnecallNoAbort ==
    /\ pc = "onecall"
    /\ \E r \in Replies :
          LET res == OnecallResult(r)
          IN  /\ requests' = Append(requests, Endpoints[1])
              /\ pc' = "historical_day"
              /\ IF res.ok
                 THEN onecall' = res.value /\ error' = error
                 ELSE /\ onecall' = [hourly |-> <<>>]
                      /\ error' = WrapErr("Failed to deserialize hourly weather data",
                                          res.err)
    /\ UNCHANGED <<config, historical, yesterday, today, diff, stdout>>
    /\ UNCHANGED tempVars /\ UNCHANGED statsVars /\ UNCHANGED getVars

\* config.onecall().wrap_err(..)?
Onecall ==
    /\ pc = "onecall"
    /\ \E r \in Replies :
          LET res == OnecallResult(r)
          IN  /\ requests' = Append(requests, Endpoints[1])
              /\ IF res.ok
                 THEN /\ onecall' = res.value
                      /\ pc' = "historical_day"
                      /\ error' = error
                 ELSE /\ onecall' = onecall
                      /\ pc' = "exit_err"
                      /\ error' = WrapErr("Failed to deserialize hourly weather data",
                                          res.err)
    /\ UNCHANGED <<config, historical, yesterday, today, diff, stdout>>
    /\ UNCHANGED tempVars /\ UNCHANGED statsVars /\ UNCHANGED getVars

HistoricalDayRetry ==
    /\ pc = "historical_day"
    /\ \E r \in Replies :
          LET res == HistoricalDayResult(r)
          IN  /\ requests' = Append(requests, Endpoints[2])
              /\ IF res.ok
                 THEN /\ historical' = res.value
                      /\ pc' = "compute"
                      /\ error' = error
                 ELSE /\ historical' = historical
                      /\ pc' = IF res.err.k = "Request" THEN "historical_day"
                               ELSE "exit_err"
                      /\ error' = IF res.err.k = "Request" THEN error
                                  ELSE WrapErr("Failed to deserialize historical hourly weather data",
                                               res.err)
    /\ UNCHANGED <<config, onecall, yesterday, today, diff, stdout>>
    /\ UNCHANGED tempVars /\ UNCHANGED statsVars /\ UNCHANGED getVars

\* config.historical_day(..).wrap_err(..)?
HistoricalDay ==
    /\ pc = "historical_day"
    /\ \E r \in Replies :
          LET res == HistoricalDayResult(r)
          IN  /\ requests' = Append(requests, Endpoints[2])
              /\ IF res.ok
                 THEN /\ historical' = res.value
                      /\ pc' = "compute"
                      /\ error' = error
                 ELSE /\ historical' = historical
                      /\ pc' = "exit_err"
                      /\ error' = WrapErr("Failed to deserialize historical hourly weather data",
                                          res.err)
    /\ UNCHANGED <<config, onecall, yesterday, today, diff, stdout>>
    /\ UNCHANGED tempVars /\ UNCHANGED statsVars /\ UNCHANGED getVars

\* let yesterday = ..; let today = ..; let diff = ..;
Compute ==
    /\ pc = "compute"
    /\ yesterday' = StatsFrom(FeelsLike(historical.hourly))
    /\ today' = StatsFrom(TodayReadings(onecall))
    /\ diff' = TempDifferenceFrom(yesterday'.avg, today'.avg)
    /\ pc' = "print"
    /\ UNCHANGED <<config, requests, onecall, historical, stdout, error>>
    /\ UNCHANGED tempVars /\ UNCHANGED statsVars /\ UNCHANGED getVars

\* print!(..); println!(..); Ok(())
PrintReport ==
    /\ pc = "print"
    /\ stdout' = stdout \o
          << [avg |-> Fmt2(today.avg)],
             [min |-> today.min, max |-> today.max, diff |-> Display(diff),
              than |-> Than(diff), end |-> End(today.avg)] >>
    /\ pc' = "exit_ok"
    /\ UNCHANGED <<config, requests, onecall, historical, yesterday, today,
                   diff, error>>
    /\ UNCHANGED tempVars /\ UNCHANGED statsVars /\ UNCHANGED getVars

Next ==
    \/ OpenConfig
    \/ ParseConfig
    \/ Onecall
    \/ HistoricalDay
    \/ Compute
    \/ PrintReport

Spec == Init /\ [][Next]_vars

ConfigContexts ==
    {"Failed to open config file", "Failed to deserialize configuration JSON"}

\* C6: an error exists exactly when the run has ended with it; in a run ended
\* with an error nothing was written to standard output, no statistics and no
\* classification were computed, no request was issued after a configuration
\* failure, the historical request was not issued after a forecast failure,
\* and no step of main is enabled any more.
C6_FirstFailureAborts ==
    /\ (error # None) <=> (pc = "exit_err")
    /\ pc = "exit_err" =>
          /\ stdout = <<>>
          /\ yesterday = None /\ today = None /\ diff = "none"
          /\ error.context \in ConfigContexts =>
                requests = <<>> /\ onecall = None /\ historical = None
          /\ error.context = "Failed to deserialize hourly weather data" =>
                requests = <<Endpoints[1]>> /\ onecall = None /\ historical = None
          /\ error.context = "Failed to deserialize historical hourly weather data" =>
                requests = Endpoints /\ onecall # None /\ historical = None
          /\ ~ENABLED Next

\* the forecast request has failed and ended the run
C6_Witness ==
    /\ pc = "exit_err"
    /\ error.context = "Failed to deserialize hourly weather data"
    /\ requests = <<Endpoints[1]>>
    /\ stdout = <<>>

\* C7: the requests issued are a prefix of <<forecast, historical>>, each
\* endpoint at most once; a request is issued only with the configuration
\* loaded, the historical one only with the forecast decoded; the statistics
\* are computed only after both requests succeeded, the report is written
\* only after the statistics, and a successful run has written it once.
C7_FixedOrder ==
    /\ requests \in {<<>>, <<Endpoints[1]>>, Endpoints}
    /\ requests # <<>> => config # None
    /\ Len(requests) = 2 => onecall # None
    /\ historical # None => requests = Endpoints
    /\ today # None <=> yesterday # None
    /\ today # None => onecall # None /\ historical # None /\ diff # "none"
    /\ stdout # <<>> => today # None /\ pc = "exit_ok"
    /\ pc = "exit_ok" => Len(stdout) = 2 /\ requests = Endpoints /\ ~ENABLED Next

\* a run has succeeded: both requests issued once, the report written
C7_Witness == pc = "exit_ok" /\ requests = Endpoints /\ Len(stdout) = 2

\* C8: the report says "as" exactly when the classification is Same and
\* "than" for the other four; it ends with " :)" exactly when
\* 60 <= today.avg <= 80 and with "." otherwise, whatever the classification.
C8_ConnectiveAndSuffix ==
    pc = "exit_ok" =>
        LET line == stdout[2]
        IN  /\ line.than \in {"as", "than"}
            /\ (line.than = "as") <=> (diff = "Same")
            /\ line.end \in {" :)", "."}
            /\ (line.end = " :)") <=>
                  /\ IsFinite(today.avg)
                  /\ 60 * today.avg.d <= today.avg.n
                  /\ today.avg.n <= 80 * today.avg.d

\* a report for an average of exactly 80 and a classification other than Same
C8_Witness ==
    /\ pc = "exit_ok"
    /\ today.avg = F(80)
    /\ diff = "MuchWarmer"
    /\ stdout[2].than = "than"
    /\ stdout[2].end = " :)"

\* C9: today's Stats is that of the first min(24, n) feels-like values of the
\* forecast's n hourly entries, in their order, so today.count = min(24, n);
\* yesterday.count is the full length of the historical hourly sequence.
C9_TruncationAtCallSite ==
    pc \in {"print", "exit_ok"} =>
        LET n == Len(onecall.hourly)
            m == IF n < 24 THEN n ELSE 24
        IN  /\ today.count = m
            /\ today.count <= 24
            /\ today = StatsFrom([i \in 1..m |-> onecall.hourly[i].feels_like])
            /\ yesterday.count = Len(historical.hourly)

\* a forecast and a historical day of more than 24 hours each
C9_Witness ==
    /\ pc = "exit_ok"
    /\ Len(onecall.hourly) > 24
    /\ today.count = 24
    /\ Len(historical.hourly) > 24
    /\ yesterday.count = Len(historical.hourly)

EmptyStats == [min |-> INFINITY, max |-> NEG_INFINITY, avg |-> NAN, count |-> 0]

\* C10: once both requests have decoded there is no error and the run goes on
\* to the report; an empty forecast gives today = {+inf, -inf, NaN, 0} and an
\* empty historical day gives yesterday the same; in either case the report
\* says "about the same as yesterday", and it ends with "." when today's
\* average is not-a-number.
C10_EmptyHourly ==
    /\ (onecall # None /\ historical # None) =>
          /\ error = None
          /\ pc \in {"compute", "print", "exit_ok"}
          /\ pc = "print" => ENABLED PrintReport
    /\ pc \in {"print", "exit_ok"} =>
          /\ onecall.hourly = <<>> => today = EmptyStats
          /\ historical.hourly = <<>> => yesterday = EmptyStats
          /\ (onecall.hourly = <<>> \/ historical.hourly = <<>>) => diff = "Same"
    /\ pc = "exit_ok" =>
          /\ (onecall.hourly = <<>> \/ historical.hourly = <<>>) =>
                stdout[2].diff = "about the same" /\ stdout[2].than = "as"
          /\ IsNaN(today.avg) => stdout[2].end = "."

\* a report has been written for an empty forecast
C10_Witness ==
    /\ pc = "exit_ok"
    /\ onecall.hourly = <<>>
    /\ historical.hourly # <<>>
    /\ IsNaN(today.avg)
    /\ stdout[2].diff = "about the same"
    /\ stdout[2].end = "."

====
